---------------------------- MODULE Spec2Model ----------------------------
(***************************************************************************)
(* ZEN-garden: the rolling-horizon solve loop (zen_garden/_internal.py),   *)
(* the nodal mass balance and the conversion performance constraint        *)
(* (model/model_instance/objects), the transport technology                *)
(* (zen_garden/model/objects/technology/transport_technology.py and        *)
(* model/objects/technology/transport_technology.py) and the persistence   *)
(* of the results (zen_garden/postprocess/results.py) and the input        *)
(* dictionaries (preprocess/functions/fill_pyomo_dictionary.py).           *)
(*                                                                         *)
(* Eleven specifications share the variables:                              *)
(*   Spec          the run of compile(): scenarios x horizon steps         *)
(*   SpecScenario  restoreBaseConfiguration / overwriteParams on the       *)
(*                 parameter store                                         *)
(*   SpecBalance   assembly of the mass balance and the performance        *)
(*                 constraints, and the solve of the assembled model       *)
(*   SpecTransport construction of transport technologies and of the       *)
(*                 bidirectional constraint, and its solve                 *)
(*   SpecRule      the loss and capex rules of a transport technology at   *)
(*                 one index, and the solve of them                        *)
(*   SpecSize      the size and availability rules of a production         *)
(*                 technology at one index, and the solve of them          *)
(*   SpecResults   Postprocess: saving and loading the result tables       *)
(*   SpecAdvance   SpecTransport followed by the carry-forward of the      *)
(*                 built capacity                                          *)
(*   SpecInput     the capex attributes of a transport technology          *)
(*   SpecFill      FillPyoDict: sets and parameters of the input           *)
(*                 dictionary                                              *)
(*   SpecCollect   Postprocess instances collecting values of a model      *)
(* A specification leaves the variables of the others at their idle value. *)
(***************************************************************************)
EXTENDS Integers, Sequences, FiniteSets, TLC

VARIABLES
    \* ---- compile(): the rolling-horizon loop
    pc,                         \* statement of compile() about to run
    config,                     \* config.scenarios, config.system, horizon steps
    scenarioIdx,                \* position of the outer for loop (line 88)
    stepIdx,                    \* position of the inner for loop (line 92)
    params,                     \* optimizationSetup: overwritable parameters
    existingCapacity,           \* optimizationSetup: existing capacity baseline
    carbonEmissionsCumulative,  \* optimizationSetup: cumulative emissions
    timeIndices,                \* optimizationSetup: horizon step of the time indices
    model,                      \* optimizationSetup.model: the constructed problem
    results,                    \* solver status and solved values
    outputs,                    \* ./outputs/<modelName>: the persisted results
    trace,                      \* calls made by compile(), in order
    preScenario,                \* history: params before the last overwriteParams
    \* ---- constraint assembly of the mass balance
    mb,
    \* ---- transport technologies
    tr,
    \* ---- a constraint rule applied at one index, and the solve of it
    ru,
    \* ---- Postprocess: the results directory and the loaded tables
    pp,
    \* ---- TransportTechnology.store_input_data of one technology
    ti,
    \* ---- FillPyoDict: the pyomo dictionary being filled
    fp

varsLoop == <<pc, config, scenarioIdx, stepIdx, params, existingCapacity,
              carbonEmissionsCumulative, timeIndices, model, results,
              outputs, trace, preScenario>>
vars == <<pc, config, scenarioIdx, stepIdx, params, existingCapacity,
          carbonEmissionsCumulative, timeIndices, model, results,
          outputs, trace, preScenario, mb, tr, ru, pp, ti, fp>>

None == "none"

(***************************************************************************)
(* Bounds                                                                  *)
(***************************************************************************)
MaxScenarios == 3       \* scenarios of one run
MaxSteps     == 2       \* horizon steps of one run
MaxExisting  == 1       \* existing capacity of the base configuration
MaxBuilt     == 1       \* capacity built in one horizon step
MaxEmissions == 1       \* emissions of one horizon step
MaxParam     == 1       \* value of an overwritable parameter

ScenarioNames == {"", "s1", "s2"}
ParamNames    == {"p1", "p2"}
CapKeys       == {"k1", "k2"}      \* (technology, location) pairs
Dataset       == "dataset"

\* config.scenarios: the base scenario "" first, then the named scenarios of
\* scenarios.py, each once (a dict has no repeated key).
ScenarioSeqs ==
    {s \in UNION {[1..k -> ScenarioNames] : k \in 1..MaxScenarios} :
        /\ s[1] = ""
        /\ \A i, j \in DOMAIN s : i # j => s[i] # s[j]}

NoOverwrite == -1       \* a parameter a scenario does not overwrite
NoStep      == -1       \* no horizon step

\* The elements of a scenario: its value for each parameter it overwrites.
ElementsOf == [ParamNames -> {NoOverwrite} \cup (0..MaxParam)]

\* The base scenario "" overwrites nothing (config.scenarios = {"": {}}).
ScenarioTables == {e \in [ScenarioNames -> ElementsOf] :
                      \A n \in ParamNames : e[""][n] = NoOverwrite}

\* The scenario tables the runs of compile() are explored with.
LoopTables ==
    {e \in ScenarioTables :
        /\ e["s1"]["p1"] = MaxParam /\ e["s1"]["p2"] = NoOverwrite
        /\ e["s2"]["p1"] \in {NoOverwrite, 0} /\ e["s2"]["p2"] = MaxParam}

ZeroCapacity == [k \in CapKeys |-> 0]
ZeroParams   == [n \in ParamNames |-> 0]

NoModel   == [constructed |-> FALSE, step |-> NoStep,
              existingCapacity |-> ZeroCapacity,
              carbonEmissionsCumulative |-> 0, params |-> ZeroParams]
NoResults == [status |-> None, builtCapacity |-> ZeroCapacity,
              carbonEmissions |-> 0]
IdleConfig == [scenarios |-> <<"">>, steps |-> 1,
               conductScenarioAnalysis |-> FALSE,
               baseParams |-> ZeroParams,
               baseCapacity |-> ZeroCapacity,
               elements |-> [s \in ScenarioNames |-> [n \in ParamNames |-> NoOverwrite]]]

idleLoop ==
    /\ pc = "idle"
    /\ config = IdleConfig
    /\ scenarioIdx = 1
    /\ stepIdx = 1
    /\ params = ZeroParams
    /\ existingCapacity = ZeroCapacity
    /\ carbonEmissionsCumulative = 0
    /\ timeIndices = NoStep
    /\ model = NoModel
    /\ results = NoResults
    /\ outputs = {}
    /\ trace = <<>>
    /\ preScenario = ZeroParams

(***************************************************************************)
(* compile(): _internal.py lines 82-122                                    *)
(***************************************************************************)
\* stepsOptimizationHorizon (line 84): the horizon steps 0 .. H-1
stepsOptimizationHorizon == [i \in 1..config.steps |-> i - 1]

scenario    == config.scenarios[scenarioIdx]
elements    == config.elements[scenario]
stepHorizon == stepsOptimizationHorizon[stepIdx]

Call(name) == [call |-> name, scenario |-> scenario, step |-> stepHorizon]

\* The statements of the loop body in program order (lines 89-113).
SuccessorExtractFirst(stmt) ==
    CASE stmt = "restoreBaseConfiguration"     -> "overwriteParams"
      [] stmt = "overwriteParams"              -> "overwriteTimeIndices"
      [] stmt = "overwriteTimeIndices"         -> "constructOptimizationProblem"
      [] stmt = "constructOptimizationProblem" -> "solve"
      [] stmt = "solve"                        -> "Postprocess"
      [] stmt = "addNewlyBuiltCapacity"        -> "addCarbonEmissionsCumulative"
      [] stmt = "addCarbonEmissionsCumulative" -> "Postprocess"

SuccessorNoAdvance(stmt) ==
    CASE stmt = "restoreBaseConfiguration"     -> "overwriteParams"
      [] stmt = "overwriteParams"              -> "overwriteTimeIndices"
      [] stmt = "overwriteTimeIndices"         -> "constructOptimizationProblem"
      [] stmt = "constructOptimizationProblem" -> "solve"
      [] stmt = "solve"                        -> "addCarbonEmissionsCumulative"
      [] stmt = "addNewlyBuiltCapacity"        -> "addCarbonEmissionsCumulative"
      [] stmt = "addCarbonEmissionsCumulative" -> "Postprocess"

SuccessorOverwriteLate(stmt) ==
    CASE stmt = "restoreBaseConfiguration"     -> "overwriteTimeIndices"
      [] stmt = "overwriteTimeIndices"         -> "constructOptimizationProblem"
      [] stmt = "constructOptimizationProblem" -> "overwriteParams"
      [] stmt = "overwriteParams"              -> "solve"
      [] stmt = "solve"                        -> "addNewlyBuiltCapacity"
      [] stmt = "addNewlyBuiltCapacity"        -> "addCarbonEmissionsCumulative"
      [] stmt = "addCarbonEmissionsCumulative" -> "Postprocess"

Successor(stmt) ==
    CASE stmt = "restoreBaseConfiguration"     -> "overwriteParams"
      [] stmt = "overwriteParams"              -> "overwriteTimeIndices"
      [] stmt = "overwriteTimeIndices"         -> "constructOptimizationProblem"
      [] stmt = "constructOptimizationProblem" -> "solve"
      [] stmt = "solve"                        -> "addNewlyBuiltCapacity"
      [] stmt = "addNewlyBuiltCapacity"        -> "addCarbonEmissionsCumulative"
      [] stmt = "addCarbonEmissionsCumulative" -> "Postprocess"

\* An exception raised by a call of the loop body: compile() has no handler
\* (no try/except in lines 86-122), so it leaves compile().
OnRaiseCaught == Successor("solve")
OnRaise == "failed"

\* optimizationSetup.restoreBaseConfiguration(scenario, elements): every
\* parameter is back at its value of the base configuration.
RestoredParams(p, base) == base

\* optimizationSetup.overwriteParams(scenario, elements): the parameters the
\* scenario names take the scenario's values.
OverwrittenParams(p, els) ==
    [n \in ParamNames |-> IF els[n] # NoOverwrite THEN els[n] ELSE p[n]]

\* optimizationSetup.addNewlyBuiltCapacity(stepHorizon): the capacity built in
\* the step is added to the existing capacity.
AddedCapacity(existing, built) ==
    [k \in CapKeys |-> existing[k] + built[k]]

restoreBaseConfiguration ==
    /\ pc = "restoreBaseConfiguration"
    /\ params' = RestoredParams(params, config.baseParams)
    /\ trace' = Append(trace, Call("restoreBaseConfiguration"))
    /\ pc' = Successor("restoreBaseConfiguration")
    /\ UNCHANGED <<config, scenarioIdx, stepIdx, existingCapacity,
                   carbonEmissionsCumulative, timeIndices, model, results,
                   outputs, preScenario, mb, tr, ru, pp, ti, fp>>

overwriteParams ==
    /\ pc = "overwriteParams"
    /\ params' = OverwrittenParams(params, elements)
    /\ preScenario' = params
    /\ trace' = Append(trace, Call("overwriteParams"))
    /\ pc' = Successor("overwriteParams")
    /\ UNCHANGED <<config, scenarioIdx, stepIdx, existingCapacity,
                   carbonEmissionsCumulative, timeIndices, model, results,
                   outputs, mb, tr, ru, pp, ti, fp>>

overwriteTimeIndices ==
    /\ pc = "overwriteTimeIndices"
    /\ timeIndices' = stepHorizon
    /\ trace' = Append(trace, Call("overwriteTimeIndices"))
    /\ pc' = Successor("overwriteTimeIndices")
    /\ UNCHANGED <<config, scenarioIdx, stepIdx, params, existingCapacity,
                   carbonEmissionsCumulative, model, results, outputs, preScenario, mb, tr, ru, pp, ti, fp>>

\* The problem is built from the state of optimizationSetup at this moment.
constructOptimizationProblem ==
    /\ pc = "constructOptimizationProblem"
    /\ model' = [constructed |-> TRUE, step |-> timeIndices,
                 existingCapacity |-> existingCapacity,
                 carbonEmissionsCumulative |-> carbonEmissionsCumulative,
                 params |-> params]
    /\ results' = NoResults
    /\ trace' = Append(trace, Call("constructOptimizationProblem"))
    /\ pc' = Successor("constructOptimizationProblem")
    /\ UNCHANGED <<config, scenarioIdx, stepIdx, params, existingCapacity,
                   carbonEmissionsCumulative, timeIndices, outputs, preScenario, mb, tr, ru, pp, ti, fp>>

SolverFailures == {"INFEASIBLE", "UNBOUNDED", "ERROR"}

\* optimizationSetup.solve(config.solver): OPTIMAL with the solved values, or a
\* failure, which is fatal for the horizon step (it raises).
solveOptimal ==
    /\ pc = "solve"
    /\ \E built \in [CapKeys -> 0..MaxBuilt], emitted \in 0..MaxEmissions :
          results' = [status |-> "OPTIMAL", builtCapacity |-> built,
                      carbonEmissions |-> emitted]
    /\ trace' = Append(trace, Call("solve"))
    /\ pc' = Successor("solve")
    /\ UNCHANGED <<config, scenarioIdx, stepIdx, params, existingCapacity,
                   carbonEmissionsCumulative, timeIndices, model, outputs,
                   preScenario, mb, tr, ru, pp, ti, fp>>

solveFails ==
    /\ pc = "solve"
    /\ \E status \in SolverFailures :
          results' = [NoResults EXCEPT !.status = status]
    /\ trace' = Append(trace, Call("solve"))
    /\ pc' = OnRaise
    /\ UNCHANGED <<config, scenarioIdx, stepIdx, params, existingCapacity,
                   carbonEmissionsCumulative, timeIndices, model, outputs,
                   preScenario, mb, tr, ru, pp, ti, fp>>

addNewlyBuiltCapacity ==
    /\ pc = "addNewlyBuiltCapacity"
    /\ existingCapacity' = AddedCapacity(existingCapacity, results.builtCapacity)
    /\ trace' = Append(trace, Call("addNewlyBuiltCapacity"))
    /\ pc' = Successor("addNewlyBuiltCapacity")
    /\ UNCHANGED <<config, scenarioIdx, stepIdx, params,
                   carbonEmissionsCumulative, timeIndices, model, results,
                   outputs, preScenario, mb, tr, ru, pp, ti, fp>>

addCarbonEmissionsCumulative ==
    /\ pc = "addCarbonEmissionsCumulative"
    /\ carbonEmissionsCumulative' =
           carbonEmissionsCumulative + results.carbonEmissions
    /\ trace' = Append(trace, Call("addCarbonEmissionsCumulative"))
    /\ pc' = Successor("addCarbonEmissionsCumulative")
    /\ UNCHANGED <<config, scenarioIdx, stepIdx, params, existingCapacity,
                   timeIndices, model, results, outputs, preScenario, mb, tr, ru, pp, ti, fp>>

\* modelName (lines 108-112): the dataset name, _MF<step> when there is more
\* than one horizon step, _<scenario> under scenario analysis.
ModelNameNoStep(sc, st) ==
    [dataset  |-> Dataset,
     MF       |-> NoStep,
     scenario |-> IF config.conductScenarioAnalysis THEN sc ELSE None]

ModelNameOf(sc, st) ==
    [dataset  |-> Dataset,
     MF       |-> IF config.steps > 1 THEN st ELSE NoStep,
     scenario |-> IF config.conductScenarioAnalysis THEN sc ELSE None]

modelName == ModelNameOf(scenario, stepHorizon)

\* The files Postprocess.__init__ writes before it returns or exits
\* (results.py lines 56-58: saveParam, saveVar, exit(0)).
SavedFiles == {"paramDict.json", "dictAllSequenceTimeSteps.json",
               "dictAllSequenceTimeSteps.pickle", "varDict.json"}

\* results.py line 58: exit(0) follows saveVar(), so __init__ never returns.
PostprocessExits == TRUE

\* Postprocess(optimizationSetup, modelName=modelName), and what follows it in
\* compile(): the next horizon step, the next scenario, or the return of
\* optimizationSetup (line 122).
Postprocess ==
    /\ pc = "Postprocess"
    /\ outputs' = {o \in outputs : o.modelName # modelName} \cup
                  {[modelName |-> modelName, file |-> f,
                    model |-> model, results |-> results] : f \in SavedFiles}
    /\ trace' = Append(trace, Call("Postprocess"))
    /\ IF PostprocessExits
         THEN /\ pc' = "exited"
              /\ UNCHANGED <<scenarioIdx, stepIdx>>
         ELSE IF stepIdx < Len(stepsOptimizationHorizon)
           THEN /\ pc' = "overwriteTimeIndices"
                /\ stepIdx' = stepIdx + 1
                /\ UNCHANGED scenarioIdx
           ELSE IF scenarioIdx < Len(config.scenarios)
             THEN /\ pc' = "restoreBaseConfiguration"
                  /\ scenarioIdx' = scenarioIdx + 1
                  /\ stepIdx' = 1
             ELSE /\ pc' = "done"
                  /\ UNCHANGED <<scenarioIdx, stepIdx>>
    /\ UNCHANGED <<config, params, existingCapacity,
                   carbonEmissionsCumulative, timeIndices, model, results,
                   preScenario, mb, tr, ru, pp, ti, fp>>

Configs ==
    {c \in [scenarios : ScenarioSeqs, steps : 1..MaxSteps,
            conductScenarioAnalysis : BOOLEAN,
            baseParams : {ZeroParams},
            baseCapacity : [CapKeys -> 0..MaxExisting],
            elements : LoopTables] :
        \* without scenario analysis config.scenarios is left at {"": {}}
        ~c.conductScenarioAnalysis => c.scenarios = <<"">>}

\* The state after OptimizationSetup(config.analysis, prepare) (line 82).
InitLoop ==
    /\ config \in Configs
    /\ pc = "restoreBaseConfiguration"
    /\ scenarioIdx = 1
    /\ stepIdx = 1
    /\ params = config.baseParams
    /\ existingCapacity = config.baseCapacity
    /\ carbonEmissionsCumulative = 0
    /\ timeIndices = NoStep
    /\ model = NoModel
    /\ results = NoResults
    /\ outputs = {}
    /\ trace = <<>>
    /\ preScenario = params

idleBalance == mb = None
idleTransport == tr = None
idleRules == ru = None
idleResults == pp = None
idleInput == ti = None
idleFill == fp = None

Init == InitLoop /\ idleBalance /\ idleTransport /\ idleRules /\ idleResults /\ idleInput /\ idleFill

Next ==
    \/ restoreBaseConfiguration
    \/ overwriteParams
    \/ overwriteTimeIndices
    \/ constructOptimizationProblem
    \/ solveOptimal
    \/ solveFails
    \/ addNewlyBuiltCapacity
    \/ addCarbonEmissionsCumulative
    \/ Postprocess

Spec == Init /\ [][Next]_vars

\* compile() is one sequential thread: a statement that can run does run.
FairSpec == Spec /\ WF_vars(Next)

(***************************************************************************)
(* Claims about the rolling-horizon loop                                   *)
(***************************************************************************)
PhaseCalls == {"constructOptimizationProblem", "solve", "addNewlyBuiltCapacity",
               "addCarbonEmissionsCumulative", "Postprocess"}
IsPhaseCall(c) == c.call \in PhaseCalls
PhaseTrace == SelectSeq(trace, IsPhaseCall)

\* The n-th (scenario, step) pair of a run: scenarios in configuration order,
\* steps in increasing order within a scenario.
PairScenario(n) == config.scenarios[((n - 1) \div config.steps) + 1]
PairStep(n)     == (n - 1) % config.steps
NumPairs        == Len(config.scenarios) * config.steps

\* The phase trace is a prefix of the blocks `order`, one block per pair.
FollowsOrder(order) ==
    \A i \in DOMAIN PhaseTrace :
        LET n == ((i - 1) \div Len(order)) + 1
        IN  /\ n <= NumPairs
            /\ PhaseTrace[i] = [call     |-> order[((i - 1) % Len(order)) + 1],
                                scenario |-> PairScenario(n),
                                step     |-> PairStep(n)]

Stopped == pc \in {"done", "exited", "failed"}
Extracted == {<<trace[i].scenario, trace[i].step>> :
                 i \in {j \in DOMAIN trace : trace[j].call = "Postprocess"}}
AllPairs == {<<PairScenario(n), PairStep(n)>> : n \in 1..NumPairs}

\* C5: when no solve fails, a run that has stopped has extracted every
\* (scenario, step) pair and has returned the optimization setup (DONE); it never
\* stops after an earlier step.
C5_StopsOnlyWhenDone ==
    (Stopped /\ results.status \notin SolverFailures)
        => (pc = "done" /\ Extracted = AllPairs)

ScenarioCalls(sc) == {i \in DOMAIN trace : trace[i].scenario = sc}
C25_OverwriteAtScenarioBoundary ==
    /\ \A i \in DOMAIN trace :
          LET sc    == trace[i].scenario
              first == CHOOSE j \in ScenarioCalls(sc) :
                          \A k \in ScenarioCalls(sc) : j <= k
          IN  /\ trace[first].call = "restoreBaseConfiguration"
              /\ (first = 1 \/ /\ trace[first - 1].call = "Postprocess"
                                /\ trace[first - 1].scenario # sc)
              /\ i > first => /\ trace[first + 1].call = "overwriteParams"
                              /\ trace[first + 1].scenario = sc
              /\ trace[i].call = "restoreBaseConfiguration" => i = first
              /\ trace[i].call = "overwriteParams" => i = first + 1
    /\ model.constructed => model.params = params

\* A scenario analysis of several scenarios and steps whose first problem
\* has been constructed and solved.
C25_Witness ==
    /\ config.conductScenarioAnalysis
    /\ Len(config.scenarios) > 1
    /\ config.steps > 1
    /\ Len(trace) >= 5
    /\ trace[1].call = "restoreBaseConfiguration"
    /\ trace[2].call = "overwriteParams"
    /\ trace[3].call = "overwriteTimeIndices"
    /\ trace[4].call = "constructOptimizationProblem"
    /\ trace[5].call = "solve"

\* ---- claims on the persisted results of the run

\* The files of the results directory: parameter table, variable table,
\* system and analysis snapshots, time-step sequence mapping (results.py
\* lines 121, 170, 181, 185, 127).
RequiredFiles == {"paramDict.json", "varDict.json", "System.pickle",
                  "Analysis.pickle", "dictAllSequenceTimeSteps.json"}

FilesOf(name) == {o.file : o \in {u \in outputs : u.modelName = name}}

\* C16: after Postprocess has run for a model name, the directory of that
\* model name holds the parameter table, the variable table, the system and
\* analysis snapshots and the time-step sequence mapping.
C16_AllTablesSaved ==
    \A i \in DOMAIN trace :
        trace[i].call = "Postprocess" =>
            RequiredFiles \subseteq FilesOf(ModelNameOf(trace[i].scenario, trace[i].step))

\* C18: the model names of two distinct (scenario, step) pairs of the run
\* differ; every persisted file lies in the directory of the model name of a
\* pair whose Postprocess has run and holds the results of that pair's own
\* solve; a failed solve leaves no file behind that an earlier step has not
\* written.
C18_OwnDirectoryOnly ==
    /\ \A p1 \in AllPairs, p2 \in AllPairs :
          p1 # p2 => ModelNameOf(p1[1], p1[2]) # ModelNameOf(p2[1], p2[2])
    /\ \A o \in outputs :
          \E p \in Extracted :
              /\ o.modelName = ModelNameOf(p[1], p[2])
              /\ o.model.step = p[2]
    /\ \A p \in Extracted :
          Cardinality({o.model : o \in {u \in outputs :
                          u.modelName = ModelNameOf(p[1], p[2])}}) = 1
    /\ pc = "failed" =>
          \A o \in outputs : o.results.status \notin SolverFailures

\* A run of several scenarios and horizon steps whose first Postprocess has
\* written its files.
C18_Witness ==
    /\ Len(config.scenarios) > 1
    /\ config.steps > 1
    /\ Extracted # {}
    /\ FilesOf(modelName) # {}
    /\ \A o \in outputs : o.modelName = modelName

(***************************************************************************)
(* SpecScenario: the scenario boundary of compile() (lines 88-90) on the   *)
(* parameter store, for each scenario of config.scenarios in turn.  The    *)
(* horizon steps of a scenario (lines 92-113) are left out.                *)
(***************************************************************************)
ScenarioConfigs ==
    [scenarios : ScenarioSeqs, steps : {1},
     conductScenarioAnalysis : {TRUE},
     baseParams : [ParamNames -> 0..MaxParam],
     baseCapacity : {ZeroCapacity},
     elements : ScenarioTables]

InitScenario ==
    /\ config \in ScenarioConfigs
    /\ pc = "scenario:restoreBaseConfiguration"
    /\ scenarioIdx = 1
    /\ stepIdx = 1
    /\ params = config.baseParams
    /\ existingCapacity = ZeroCapacity
    /\ carbonEmissionsCumulative = 0
    /\ timeIndices = NoStep
    /\ model = NoModel
    /\ results = NoResults
    /\ outputs = {}
    /\ trace = <<>>
    /\ preScenario = params
    /\ idleBalance /\ idleTransport /\ idleRules /\ idleResults /\ idleInput /\ idleFill

\* compile() without line 89: the scenario is applied without a restore.
scenarioRestoreSkipped ==
    /\ pc = "scenario:restoreBaseConfiguration"
    /\ trace' = Append(trace, Call("restoreBaseConfiguration"))
    /\ pc' = "scenario:overwriteParams"
    /\ UNCHANGED <<config, scenarioIdx, stepIdx, params, existingCapacity,
                   carbonEmissionsCumulative, timeIndices, model, results,
                   outputs, preScenario, mb, tr, ru, pp, ti, fp>>

scenarioRestoreBaseConfiguration ==
    /\ pc = "scenario:restoreBaseConfiguration"
    /\ params' = RestoredParams(params, config.baseParams)
    /\ trace' = Append(trace, Call("restoreBaseConfiguration"))
    /\ pc' = "scenario:overwriteParams"
    /\ UNCHANGED <<config, scenarioIdx, stepIdx, existingCapacity,
                   carbonEmissionsCumulative, timeIndices, model, results,
                   outputs, preScenario, mb, tr, ru, pp, ti, fp>>

scenarioOverwriteParams ==
    /\ pc = "scenario:overwriteParams"
    /\ params' = OverwrittenParams(params, elements)
    /\ preScenario' = params
    /\ trace' = Append(trace, Call("overwriteParams"))
    /\ IF scenarioIdx < Len(config.scenarios)
         THEN pc' = "scenario:restoreBaseConfiguration"
              /\ scenarioIdx' = scenarioIdx + 1
         ELSE pc' = "scenario:done" /\ UNCHANGED scenarioIdx
    /\ UNCHANGED <<config, stepIdx, existingCapacity,
                   carbonEmissionsCumulative, timeIndices, model, results,
                   outputs, mb, tr, ru, pp, ti, fp>>

NextScenario == scenarioRestoreBaseConfiguration \/ scenarioOverwriteParams

SpecScenario == InitScenario /\ [][NextScenario]_vars

LastCall == trace[Len(trace)]

MaxUnits      == 2      \* largest value of a decision variable, in units of ExampleDemand
ExampleDemand == 10     \* the demand of the example solve
EffDen        == 2      \* efficiencies are multiples of 1 / EffDen

Carriers   == {"A", "B"}
Nodes      == {"node1", "node2"}
TimeSteps  == {0}
ConversionTechnologies == {"conv"}
TransportTechnologies  == {"pipe"}
Vals       == {u * ExampleDemand : u \in 0..MaxUnits}
Efficiencies == {0, 1}      \* numerators over EffDen: 0 and 0.5

\* ---- decision variables of the pyomo model
Var(comp, tech, carrier, node, nodeTo, time) ==
    [comp |-> comp, tech |-> tech, carrier |-> carrier, node |-> node,
     nodeTo |-> nodeTo, time |-> time]
importCarrier(carrier, node, time) ==
    Var("importCarrier", None, carrier, node, None, time)
exportCarrier(carrier, node, time) ==
    Var("exportCarrier", None, carrier, node, None, time)
inputTechnology(tech, carrier, node, time) ==
    Var("input", tech, carrier, node, None, time)
outputTechnology(tech, carrier, node, time) ==
    Var("output", tech, carrier, node, None, time)
\* getattr(model, f'carrierFlow{tech}')[carrier, tech, n1, n2, time]
carrierFlowOfTech(carrier, tech, n1, n2, time) ==
    Var("carrierFlow<tech>", tech, carrier, n1, n2, time)
\* model.carrierFlow[carrier, tech, n1, n2, time]
carrierFlow(carrier, tech, n1, n2, time) ==
    Var("carrierFlow", tech, carrier, n1, n2, time)

\* ---- configurations
BalanceConfigs ==
    {c \in [setInputCarriers  : {{"A"}, {"A", "B"}},
            setOutputCarriers : {{"A"}, {"B"}, {"A", "B"}},
            setConversionTechnologies : {ConversionTechnologies},
            setTransportTechnologies  : SUBSET TransportTechnologies,
            inputCarriersOf  : [ConversionTechnologies -> {{"A"}}],
            outputCarriersOf : [ConversionTechnologies -> {{"B"}}],
            converEfficiency :
                [ConversionTechnologies -> [Carriers -> [Carriers -> Efficiencies]]],
            demandCarrier : [Carriers -> [Nodes -> {0, ExampleDemand}]]] :
        \* the efficiency table has a row per input carrier and a column per
        \* output carrier of the technology; there is demand at node1 only,
        \* and the same for every carrier
        /\ \A t \in ConversionTechnologies, i \in Carriers, o \in Carriers :
              (i \notin c.inputCarriersOf[t] \/ o \notin c.outputCarriersOf[t])
                  => c.converEfficiency[t][i][o] = 0
        /\ \A k \in Carriers :
              /\ c.demandCarrier[k]["node2"] = 0
              /\ c.demandCarrier[k]["node1"] = c.demandCarrier["B"]["node1"]}

\* The example of the specification: A -> B with efficiency 0.5, a demand of
\* 10 units of B at node1, A can be imported without limit.
ExampleConfig ==
    [setInputCarriers  |-> {"A"},
     setOutputCarriers |-> {"B"},
     setConversionTechnologies |-> {"conv"},
     setTransportTechnologies  |-> {},
     inputCarriersOf  |-> [t \in ConversionTechnologies |-> {"A"}],
     outputCarriersOf |-> [t \in ConversionTechnologies |-> {"B"}],
     converEfficiency |->
        [t \in ConversionTechnologies |->
            [i \in Carriers |-> [o \in Carriers |->
                IF i = "A" /\ o = "B" THEN 1 ELSE 0]]],
     demandCarrier |-> [k \in Carriers |-> [n \in Nodes |->
                          IF n = "node1" THEN ExampleDemand ELSE 0]]]

MassBalanceRuleImportAlways(cfg, carrier, node, time) ==
    [carrier |-> carrier, node |-> node, time |-> time,
     carrierImport |-> {importCarrier(carrier, node, time)},
     carrierExport |->
        IF carrier \in cfg.setOutputCarriers
          THEN {exportCarrier(carrier, node, time)} ELSE {},
     carrierConversionIn |->
        UNION {{inputTechnology(tech, carrierIn, node, time) :
                    carrierIn \in cfg.inputCarriersOf[tech]} :
               tech \in cfg.setConversionTechnologies},
     carrierConversionOut |->
        UNION {{outputTechnology(tech, carrierOut, node, time) :
                    carrierOut \in cfg.outputCarriersOf[tech]} :
               tech \in cfg.setConversionTechnologies},
     carrierFlowIn |->
        {carrierFlowOfTech(carrier, tech, aliasNode, node, time) :
             tech \in cfg.setTransportTechnologies, aliasNode \in Nodes},
     carrierFlowOut |->
        {carrierFlow(carrier, tech, node, aliasNode, time) :
             tech \in cfg.setTransportTechnologies, aliasNode \in Nodes},
     carrierDemand |->
        IF carrier \in cfg.setOutputCarriers
          THEN cfg.demandCarrier[carrier][node] ELSE 0]

\* ---- MassBalance.constraintNodalMassBalanceRule (mass_balance.py 29-67).
\* Each part of the balance is the set of the variables it sums.
constraintNodalMassBalanceRule(cfg, carrier, node, time) ==
    LET carrierImport ==
            IF carrier \in cfg.setInputCarriers
              THEN {importCarrier(carrier, node, time)} ELSE {}
        carrierDemand ==
            IF carrier \in cfg.setOutputCarriers
              THEN cfg.demandCarrier[carrier][node] ELSE 0
        carrierExport ==
            IF carrier \in cfg.setOutputCarriers
              THEN {exportCarrier(carrier, node, time)} ELSE {}
        carrierConversionIn ==
            UNION {{inputTechnology(tech, carrierIn, node, time) :
                        carrierIn \in cfg.inputCarriersOf[tech]} :
                   tech \in cfg.setConversionTechnologies}
        carrierConversionOut ==
            UNION {{outputTechnology(tech, carrierOut, node, time) :
                        carrierOut \in cfg.outputCarriersOf[tech]} :
                   tech \in cfg.setConversionTechnologies}
        carrierFlowIn ==
            {carrierFlowOfTech(carrier, tech, aliasNode, node, time) :
                 tech \in cfg.setTransportTechnologies, aliasNode \in Nodes}
        carrierFlowOut ==
            {carrierFlow(carrier, tech, node, aliasNode, time) :
                 tech \in cfg.setTransportTechnologies, aliasNode \in Nodes}
    IN  [carrier |-> carrier, node |-> node, time |-> time,
         carrierImport |-> carrierImport,
         carrierExport |-> carrierExport,
         carrierConversionIn  |-> carrierConversionIn,
         carrierConversionOut |-> carrierConversionOut,
         carrierFlowIn  |-> carrierFlowIn,
         carrierFlowOut |-> carrierFlowOut,
         carrierDemand  |-> carrierDemand]

\* ---- ProductionTechnology.constraintProductionTechnologiesPerformanceRule
\* (production_technology.py 59-67); "le": efficiency * input <= output,
\* "eq0": input == 0.
PerformanceRuleNonNegative(cfg, tech, carrierIn, carrierOut, node, time) ==
    [tech |-> tech, carrierIn |-> carrierIn, carrierOut |-> carrierOut,
     node |-> node, time |-> time,
     kind |-> IF cfg.converEfficiency[tech][carrierIn][carrierOut] >= 0
                THEN "le" ELSE "eq0",
     efficiency |-> cfg.converEfficiency[tech][carrierIn][carrierOut]]

constraintProductionTechnologiesPerformanceRule(cfg, tech, carrierIn, carrierOut, node, time) ==
    [tech |-> tech, carrierIn |-> carrierIn, carrierOut |-> carrierOut,
     node |-> node, time |-> time,
     kind |-> IF cfg.converEfficiency[tech][carrierIn][carrierOut] > 0
                THEN "le" ELSE "eq0",
     efficiency |-> cfg.converEfficiency[tech][carrierIn][carrierOut]]

\* ---- evaluation of the constraints at an assignment of the variables
RECURSIVE SumOf(_, _)
SumOf(S, x) ==
    IF S = {} THEN 0
    ELSE LET v == CHOOSE w \in S : TRUE
         IN  x[v] + SumOf(S \ {v}, x)

BalanceHolds(b, x) ==
    SumOf(b.carrierImport, x) - SumOf(b.carrierExport, x)
      - SumOf(b.carrierConversionIn, x) + SumOf(b.carrierConversionOut, x)
      + SumOf(b.carrierFlowIn, x) - SumOf(b.carrierFlowOut, x)
      - b.carrierDemand = 0

PerformanceHolds(p, x) ==
    IF p.kind = "le"
      THEN p.efficiency * x[inputTechnology(p.tech, p.carrierIn, p.node, p.time)]
             <= EffDen * x[outputTechnology(p.tech, p.carrierOut, p.node, p.time)]
      ELSE x[inputTechnology(p.tech, p.carrierIn, p.node, p.time)] = 0

BalanceVars(b) ==
    b.carrierImport \cup b.carrierExport \cup b.carrierConversionIn
      \cup b.carrierConversionOut \cup b.carrierFlowIn \cup b.carrierFlowOut
PerformanceVars(p) ==
    {inputTechnology(p.tech, p.carrierIn, p.node, p.time),
     outputTechnology(p.tech, p.carrierOut, p.node, p.time)}

\* ---- the assembled model and its solve
NoSolution == [n \in Nodes |-> [v \in {} |-> 0]]

InitBalance ==
    /\ idleLoop /\ idleTransport /\ idleRules /\ idleResults /\ idleInput /\ idleFill
    /\ \E cfg \in BalanceConfigs :
          mb = [cfg |-> cfg, constructed |-> {}, performance |-> {},
                balance |-> {}, status |-> None, sol |-> NoSolution]

\* The performance constraint, built by the rule for every technology, input
\* and output carrier of its efficiency table, node and time step.
constructPerformance ==
    /\ mb.status = None
    /\ "performance" \notin mb.constructed
    /\ mb' = [mb EXCEPT
         !.constructed = @ \cup {"performance"},
         !.performance =
            UNION {{constraintProductionTechnologiesPerformanceRule(
                        mb.cfg, tech, carrierIn, carrierOut, node, time) :
                      carrierIn \in mb.cfg.inputCarriersOf[tech],
                      carrierOut \in mb.cfg.outputCarriersOf[tech],
                      node \in Nodes, time \in TimeSteps} :
                   tech \in mb.cfg.setConversionTechnologies}]
    /\ UNCHANGED <<varsLoop, tr, ru, pp, ti, fp>>

\* NodalMassBalance; dimensions setCarriers, setNodes, setTimeSteps
\* (mass_balance.py 21-22).
constructMassBalance ==
    /\ mb.status = None
    /\ "balance" \notin mb.constructed
    /\ mb' = [mb EXCEPT
         !.constructed = @ \cup {"balance"},
         !.balance =
            {constraintNodalMassBalanceRule(mb.cfg, carrier, node, time) :
                carrier \in Carriers, node \in Nodes, time \in TimeSteps}]
    /\ UNCHANGED <<varsLoop, tr, ru, pp, ti, fp>>

\* The variables of the constraints of a node, and the assignments of them
\* that satisfy every constraint of the node.
NodeVars(node) ==
    UNION {BalanceVars(b) : b \in {c \in mb.balance : c.node = node}} \cup
    UNION {PerformanceVars(p) : p \in {c \in mb.performance : c.node = node}}

NodeSolutions(node) ==
    {x \in [NodeVars(node) -> Vals] :
        /\ \A p \in mb.performance : p.node = node => PerformanceHolds(p, x)
        /\ \A b \in mb.balance : b.node = node => BalanceHolds(b, x)}

\* The solver: a feasible assignment (the optimum is one of them), or
\* INFEASIBLE when there is none.  Without transport technologies no
\* constraint joins two nodes, and the model is solved node by node; only
\* such models are solved here.
Solvable == mb.cfg.setTransportTechnologies = {}

solveBalance ==
    /\ mb.status = None
    /\ mb.constructed = {"performance", "balance"}
    /\ Solvable
    /\ IF \A node \in Nodes : NodeSolutions(node) # {}
         THEN \E x \in [Nodes -> UNION {NodeSolutions(n) : n \in Nodes}] :
                 /\ \A n \in Nodes : x[n] \in NodeSolutions(n)
                 /\ mb' = [mb EXCEPT !.status = "OPTIMAL", !.sol = x]
         ELSE mb' = [mb EXCEPT !.status = "INFEASIBLE"]
    /\ UNCHANGED <<varsLoop, tr, ru, pp, ti, fp>>

NextBalance == constructPerformance \/ constructMassBalance \/ solveBalance

SpecBalance == InitBalance /\ [][NextBalance]_vars

\* ---- claims on the mass balance and the performance constraint

\* C1: in the balance of carrier c, conversionIn and conversionOut hold the
\* input and output streams of carrier c only.
C1_OnlyOwnCarrierStreams ==
    \A b \in mb.balance :
        \A v \in b.carrierConversionIn \cup b.carrierConversionOut :
            v.carrier = b.carrier

\* C2: the example (A -> B at efficiency 0.5, demand of 10 units of B at
\* node1) solves to optimality with output of B >= 10 and input of A = 20 at
\* node1 and no export of B (B cannot be imported: there is no import
\* variable for it).
C2_ExampleSolve ==
    (mb.cfg = ExampleConfig /\ mb.status # None) =>
        /\ mb.status = "OPTIMAL"
        /\ mb.sol["node1"][outputTechnology("conv", "B", "node1", 0)]
              >= ExampleDemand
        /\ mb.sol["node1"][inputTechnology("conv", "A", "node1", 0)]
              = 2 * ExampleDemand
        /\ mb.sol["node1"][exportCarrier("B", "node1", 0)] = 0

\* C3: once the performance constraints are constructed there is one for
\* every (technology, input carrier, output carrier, node, time): it is
\* efficiency * input <= output where the efficiency is positive and
\* input == 0 where it is zero; and in every solution the input of a pair of
\* zero efficiency is zero.
C3_PerformanceLinear ==
    \A tech \in mb.cfg.setConversionTechnologies :
      \A carrierIn \in mb.cfg.inputCarriersOf[tech],
         carrierOut \in mb.cfg.outputCarriersOf[tech],
         node \in Nodes, time \in TimeSteps :
        LET eff == mb.cfg.converEfficiency[tech][carrierIn][carrierOut]
            own == {p \in mb.performance :
                       /\ p.tech = tech /\ p.carrierIn = carrierIn
                       /\ p.carrierOut = carrierOut
                       /\ p.node = node /\ p.time = time}
        IN  /\ "performance" \in mb.constructed =>
                /\ Cardinality(own) = 1
                /\ \A p \in own :
                      /\ eff > 0 => (p.kind = "le" /\ p.efficiency = eff)
                      /\ eff = 0 => p.kind = "eq0"
            /\ (mb.status = "OPTIMAL" /\ eff = 0) =>
                  mb.sol[node][inputTechnology(tech, carrierIn, node, time)] = 0

\* A solved model with a pair of zero efficiency, its input at zero while
\* the output of the technology is not.
C3_Witness ==
    /\ mb.status = "OPTIMAL"
    /\ mb.cfg.converEfficiency["conv"]["A"]["B"] = 0
    /\ mb.sol["node1"][inputTechnology("conv", "A", "node1", 0)] = 0
    /\ mb.sol["node1"][outputTechnology("conv", "B", "node1", 0)] > 0

(***************************************************************************)
(* SpecTransport: the transport technologies                               *)
(* (zen_garden/model/objects/technology/transport_technology.py): every    *)
(* technology of the system is initialised, the constraints of the class   *)
(* are constructed, and the model is solved.                               *)
(***************************************************************************)
setTransportTechnologies == <<"pipe", "truck">>
setEdges == <<<<"node1", "node2">>, <<"node2", "node1">>>>
set_time_steps_yearly == {0, 1}
Range(seq) == {seq[i] : i \in DOMAIN seq}

\* Existing capacity of a technology per edge: none, the same in both
\* directions, or in one direction only.
ExistingTables ==
    {[e \in Range(setEdges) |-> 0],
     [e \in Range(setEdges) |-> 1],
     [e \in Range(setEdges) |-> IF e = setEdges[1] THEN 1 ELSE 0]}

TransportSystems ==
    [setBidirectionalTransportTechnologies : SUBSET Range(setTransportTechnologies),
     existingCapacity : [Range(setTransportTechnologies) -> ExistingTables]]

\* EnergySystem.calculate_reversed_edge
calculate_reversed_edge(edge) == <<edge[2], edge[1]>>

\* dictReversedEdges, a dict: the set of its (key, value) pairs.
setReversedEdge(dict, edge, reversed) ==
    {kv \in dict : kv[1] # edge} \cup {<<edge, reversed>>}
getReversedEdge(dict, edge) ==
    (CHOOSE kv \in dict : kv[1] = edge)[2]

\* checkIfBidirectional: the edges are visited in order; each is entered in
\* dictReversedEdges and then checked.  The number of edges visited: up to
\* and including the first whose existing capacity differs from that of its
\* reverse.
EdgeEqual(existing, edge) ==
    existing[edge] = existing[calculate_reversed_edge(edge)]
EdgesVisited(existing) ==
    IF \A i \in DOMAIN setEdges : EdgeEqual(existing, setEdges[i])
      THEN Len(setEdges)
      ELSE CHOOSE i \in DOMAIN setEdges :
              /\ ~EdgeEqual(existing, setEdges[i])
              /\ \A j \in 1..(i - 1) : EdgeEqual(existing, setEdges[j])
RECURSIVE DictAfter(_, _)
DictAfter(dict, n) ==
    IF n = 0 THEN dict
    ELSE setReversedEdge(DictAfter(dict, n - 1), setEdges[n],
                         calculate_reversed_edge(setEdges[n]))
\* checkIfBidirectional with each edge compared with itself.
CheckIfBidirectionalSameEdge(existing) ==
    \A i \in DOMAIN setEdges : existing[setEdges[i]] = existing[setEdges[i]]

checkIfBidirectionalPasses(existing) ==
    \A i \in DOMAIN setEdges : EdgeEqual(existing, setEdges[i])

built_capacity(tech, edge, time) == [tech |-> tech, edge |-> edge, time |-> time]
Skip == [skip |-> TRUE]

\* constraintBidirectionalTransportTechnologyRule: lhs == rhs, or Skip.
BidirectionalRuleSameEdge(system, dict, tech, edge, time) ==
    IF tech \in system.setBidirectionalTransportTechnologies
      THEN [skip |-> FALSE, tech |-> tech, edge |-> edge, time |-> time,
            lhs |-> built_capacity(tech, edge, time),
            rhs |-> built_capacity(tech, edge, time)]
      ELSE Skip

constraintBidirectionalTransportTechnologyRule(system, dict, tech, edge, time) ==
    IF tech \in system.setBidirectionalTransportTechnologies
      THEN [skip |-> FALSE, tech |-> tech, edge |-> edge, time |-> time,
            lhs |-> built_capacity(tech, edge, time),
            rhs |-> built_capacity(tech, getReversedEdge(dict, edge), time)]
      ELSE Skip

NoBuilt ==
    [t \in Range(setTransportTechnologies) |->
        [e \in Range(setEdges) |-> [y \in set_time_steps_yearly |-> 0]]]

InitTransport ==
    /\ idleLoop /\ idleBalance /\ idleRules /\ idleResults /\ idleInput /\ idleFill
    /\ \E system \in TransportSystems :
          tr = [pc |-> "init", system |-> system, list_of_elements |-> <<>>,
                dictReversedEdges |-> {},
                constraintBidirectionalTransportTechnology |-> {},
                status |-> None, built |-> NoBuilt]

\* TransportTechnology.__init__ of the next technology of the system:
\* store_input_data (with checkIfBidirectional for a bidirectional
\* technology), then add_element.  A failed assertion ends the run.
TransportTechnologyInit ==
    /\ tr.pc = "init"
    /\ LET tech == setTransportTechnologies[Len(tr.list_of_elements) + 1]
           existing == tr.system.existingCapacity[tech]
       IN  IF tech \in tr.system.setBidirectionalTransportTechnologies
             THEN IF checkIfBidirectionalPasses(existing)
                    THEN tr' = [tr EXCEPT
                           !.dictReversedEdges = DictAfter(@, Len(setEdges)),
                           !.list_of_elements = Append(@, tech),
                           !.pc = IF Len(tr.list_of_elements) + 1 = Len(setTransportTechnologies)
                                    THEN "construct" ELSE "init"]
                    ELSE tr' = [tr EXCEPT
                           !.dictReversedEdges = DictAfter(@, EdgesVisited(existing)),
                           !.pc = "failed"]
             ELSE tr' = [tr EXCEPT
                           !.list_of_elements = Append(@, tech),
                           !.pc = IF Len(tr.list_of_elements) + 1 = Len(setTransportTechnologies)
                                    THEN "construct" ELSE "init"]
    /\ UNCHANGED <<varsLoop, mb, ru, pp, ti, fp>>

\* TransportTechnology.construct_constraints: the bidirectional constraint
\* over setTransportTechnologies x setEdges x set_time_steps_yearly; a
\* skipped index adds no constraint.
construct_constraints ==
    /\ tr.pc = "construct"
    /\ tr' = [tr EXCEPT
         !.constraintBidirectionalTransportTechnology =
            {constraintBidirectionalTransportTechnologyRule(
                 tr.system, tr.dictReversedEdges, tech, edge, time) :
               tech \in Range(tr.list_of_elements), edge \in Range(setEdges),
               time \in set_time_steps_yearly} \ {Skip},
         !.pc = "solve"]
    /\ UNCHANGED <<varsLoop, mb, ru, pp, ti, fp>>

\* The solver: any assignment of the built capacities that satisfies the
\* constraints.
TransportFeasible(x) ==
    \A c \in tr.constraintBidirectionalTransportTechnology :
        x[c.lhs.tech][c.lhs.edge][c.lhs.time] = x[c.rhs.tech][c.rhs.edge][c.rhs.time]

solveTransport ==
    /\ tr.pc = "solve"
    /\ \E x \in [Range(setTransportTechnologies) ->
                   [Range(setEdges) -> [set_time_steps_yearly -> 0..MaxBuilt]]] :
          /\ TransportFeasible(x)
          /\ tr' = [tr EXCEPT !.built = x, !.status = "OPTIMAL", !.pc = "done"]
    /\ UNCHANGED <<varsLoop, mb, ru, pp, ti, fp>>

NextTransport == TransportTechnologyInit \/ construct_constraints \/ solveTransport

SpecTransport == InitTransport /\ [][NextTransport]_vars

\* C10: once the constraints are constructed, a bidirectional technology
\* has, for every edge and yearly step, the constraint that equates the
\* built capacity of the edge with that of its reverse, and a technology
\* that is not bidirectional has no such constraint; in every solution the
\* built capacity of a bidirectional technology is the same on an edge and
\* on its reverse at every yearly step.
C10_BidirectionalBuiltCapacity ==
    tr.pc \in {"solve", "done"} =>
      \A tech \in Range(setTransportTechnologies), edge \in Range(setEdges),
         time \in set_time_steps_yearly :
        LET own == {c \in tr.constraintBidirectionalTransportTechnology :
                       c.tech = tech /\ c.edge = edge /\ c.time = time}
        IN  IF tech \in tr.system.setBidirectionalTransportTechnologies
              THEN /\ own = {[skip |-> FALSE, tech |-> tech, edge |-> edge,
                              time |-> time,
                              lhs |-> built_capacity(tech, edge, time),
                              rhs |-> built_capacity(
                                         tech, calculate_reversed_edge(edge), time)]}
                   /\ tr.status = "OPTIMAL" =>
                         tr.built[tech][edge][time] =
                           tr.built[tech][calculate_reversed_edge(edge)][time]
              ELSE own = {}

\* A solution in which the bidirectional pipe is built, and the truck, not
\* bidirectional, is built in one direction only.
C10_Witness ==
    /\ tr.status = "OPTIMAL"
    /\ tr.system.setBidirectionalTransportTechnologies = {"pipe"}
    /\ tr.built["pipe"][setEdges[1]][1] > 0
    /\ tr.built["pipe"][setEdges[2]][1] = tr.built["pipe"][setEdges[1]][1]
    /\ tr.built["truck"][setEdges[1]][0] # tr.built["truck"][setEdges[2]][0]

\* The technologies whose existing capacity differs between some edge and
\* its reverse.
Mismatched ==
    {tech \in Range(setTransportTechnologies) :
        \E edge \in Range(setEdges) :
            tr.system.existingCapacity[tech][edge] #
              tr.system.existingCapacity[tech][calculate_reversed_edge(edge)]}

\* C20: a technology listed in setBidirectionalTransportTechnologies whose
\* existing capacity differs between an edge and its reverse is never
\* registered in list_of_elements, and its construction, once attempted,
\* has failed; in the failed run no constraint has been constructed and
\* nothing has been solved.  There is no check for a technology that is
\* not listed: a run fails only at a listed technology with such a
\* difference, and a technology that is not listed is registered whatever
\* its existing capacity.
C20_MismatchFailsBeforeRegistration ==
    /\ \A i \in DOMAIN setTransportTechnologies :
          LET tech == setTransportTechnologies[i]
          IN  IF /\ tech \in tr.system.setBidirectionalTransportTechnologies
                 /\ tech \in Mismatched
                THEN /\ tech \notin Range(tr.list_of_elements)
                     /\ Len(tr.list_of_elements) < i
                     /\ (Len(tr.list_of_elements) = i - 1 /\ tr.pc # "init")
                           => tr.pc = "failed"
                ELSE (Len(tr.list_of_elements) = i - 1) => tr.pc = "init"
    /\ tr.pc = "failed" =>
          /\ tr.constraintBidirectionalTransportTechnology = {}
          /\ tr.status = None
          /\ tr.built = NoBuilt
    /\ tr.pc \in {"construct", "solve", "done"} =>
          tr.list_of_elements = setTransportTechnologies

\* The pipe, not listed as bidirectional, is registered with existing
\* capacity in one direction only; the construction of the truck, listed
\* and with existing capacity in one direction only, has failed.
C20_Witness ==
    /\ tr.pc = "failed"
    /\ tr.list_of_elements = <<"pipe">>
    /\ tr.system.setBidirectionalTransportTechnologies = {"truck"}
    /\ Mismatched = {"pipe", "truck"}

(***************************************************************************)
(* SpecAdvance: SpecTransport followed by the ADVANCE of the horizon step  *)
(* (compile(), _internal.py lines 103-104).  Postprocess ends the process  *)
(* after the first step (results.py line 58), so a run advances once.      *)
(***************************************************************************)
\* The year whose built capacity the step carries forward: the first.
FirstYear == CHOOSE y \in set_time_steps_yearly :
                \A z \in set_time_steps_yearly : y <= z

\* OptimizationSetup.addNewlyBuiltCapacity on the transport technologies:
\* existing capacity + capacity built in the step.
AddedTransportCapacity(existing, built) ==
    [t \in Range(setTransportTechnologies) |->
        [e \in Range(setEdges) |-> existing[t][e] + built[t][e][FirstYear]]]

addNewlyBuiltCapacityTransport ==
    /\ tr.pc = "done"
    /\ tr' = [tr EXCEPT
         !.system.existingCapacity = AddedTransportCapacity(@, tr.built),
         !.pc = "advanced"]
    /\ UNCHANGED <<varsLoop, mb, ru, pp, ti, fp>>

NextAdvance ==
    \/ TransportTechnologyInit
    \/ construct_constraints
    \/ solveTransport
    \/ addNewlyBuiltCapacityTransport

SpecAdvance == InitTransport /\ [][NextAdvance]_vars

\* C26: a registered bidirectional technology (its existing capacities
\* passed checkIfBidirectional) has the same existing capacity on every
\* edge and on its reverse, before and after the ADVANCE of the step.
C26_ExistingCapacitySymmetric ==
    \A tech \in Range(tr.list_of_elements) :
        tech \in tr.system.setBidirectionalTransportTechnologies =>
            \A edge \in Range(setEdges) :
                tr.system.existingCapacity[tech][edge] =
                  tr.system.existingCapacity[tech][calculate_reversed_edge(edge)]

\* After the ADVANCE the bidirectional pipe has more existing capacity than
\* it was loaded with, and the truck, not bidirectional, has got capacity
\* in one direction only.
C26_Witness ==
    /\ tr.pc = "advanced"
    /\ tr.system.setBidirectionalTransportTechnologies = {"pipe"}
    /\ tr.built["pipe"][setEdges[1]][FirstYear] > 0
    /\ tr.system.existingCapacity["pipe"][setEdges[1]] >
          tr.built["pipe"][setEdges[1]][FirstYear]
    /\ tr.system.existingCapacity["truck"][setEdges[1]] #
          tr.system.existingCapacity["truck"][setEdges[2]]

(***************************************************************************)
(* SpecRule: the constraint rules of a transport technology applied at one *)
(* index (tech, edge, time), and the solve of the constraints they return. *)
(* The repository holds two generations of the transport technology:       *)
(* zen_garden/model/objects/technology/transport_technology.py and         *)
(* model/objects/technology/transport_technology.py ("zen_garden" and      *)
(* "model" below).  The rules read the parameters and variables of their   *)
(* own index only.                                                         *)
(***************************************************************************)
MaxDistance == 2        \* largest finite distance of an edge
MaxRate     == 1        \* largest lossFlow
MaxCost     == 1        \* largest capexSpecific / capexPerDistance
MaxFlow     == 1        \* largest upper bound of the capacity variable
CapexDen    == 2        \* capex is counted in units of 1 / CapexDen (factor 0.5)
Infinity    == -1       \* np.inf
NaN         == -2       \* np.inf * 0

isinf(d) == d = Infinity

\* Product of a distance with a finite non-negative number.
TimesDistance(d, x) ==
    IF isinf(d) THEN (IF x = 0 THEN NaN ELSE Infinity) ELSE d * x

RuleModules == {"zen_garden", "model"}

\* Parameters at the index: distance[tech, edge], lossFlow[tech],
\* capexSpecificTransport[tech, edge, time], capexPerDistance[tech, edge,
\* time] (costPerDistance in "model", which has no specific capex), and the
\* upper bound of capacity[tech, "power", edge, timeStepYear].
RuleParams ==
    {q \in [module   : RuleModules,
            distance : {Infinity} \cup 0..MaxDistance,
            lossFlow : 0..MaxRate,
            capexSpecificTransport : 0..MaxCost,
            capexPerDistance : 0..MaxCost,
            capacityUpper : 0..MaxFlow] :
        q.module = "model" => q.capexSpecificTransport = 0}

\* ---- zen_garden: constraintTransportTechnologyLossesFlowRule (234-242).
\* "zero": variable == 0; "linear": variable == sum of coef * variable,
\* coefficients of capex in units of 1 / CapexDen.
LossesFlowRuleNoRate(q) ==
    IF isinf(q.distance)
      THEN [kind |-> "zero", var |-> "carrierLoss"]
      ELSE [kind |-> "linear", var |-> "carrierLoss", den |-> 1,
            terms |-> {[coef |-> q.distance, var |-> "carrierFlow"]}]

constraintTransportTechnologyLossesFlowRule(q) ==
    IF isinf(q.distance)
      THEN [kind |-> "zero", var |-> "carrierLoss"]
      ELSE [kind |-> "linear", var |-> "carrierLoss", den |-> 1,
            terms |-> {[coef |-> q.distance * q.lossFlow,
                        var |-> "carrierFlow"]}]

\* ---- zen_garden: constraintCapexTransportTechnologyRule (244-253)
constraintCapexTransportTechnologyRule(q) ==
    IF isinf(q.distance)
      THEN [kind |-> "zero", var |-> "built_capacity"]
      ELSE [kind |-> "linear", var |-> "capex", den |-> 1,
            terms |-> {[coef |-> q.capexSpecificTransport,
                        var |-> "built_capacity"],
                       [coef |-> q.distance * q.capexPerDistance,
                        var |-> "installTechnology"]}]

\* ---- model: constraintTransportTechnologyLossesFlowRule (169-173)
constraintTransportTechnologyLossesFlowRuleModel(q) ==
    [kind |-> "linear", var |-> "carrierLoss", den |-> 1,
     terms |-> {[coef |-> TimesDistance(q.distance, q.lossFlow),
                 var |-> "carrierFlow"]}]

\* ---- model: constraintTransportTechnologyLinearCapexRule (175-181):
\* capex == 0.5 * builtCapacity * distance * costPerDistance
constraintTransportTechnologyLinearCapexRule(q) ==
    [kind |-> "linear", var |-> "capex", den |-> CapexDen,
     terms |-> {[coef |-> TimesDistance(q.distance, q.capexPerDistance),
                 var |-> "built_capacity"]}]

\* ---- the variables at the index and their domains
RuleVariables ==
    {"carrierFlow", "carrierLoss", "built_capacity", "installTechnology", "capex"}

\* carrierFlow: NonNegativeReals within the bounds of the capacity variable
\* (carrierFlowBounds); carrierLoss: NonNegativeReals; installTechnology is
\* binary.  capex is counted in units of 1 / CapexDen.
RuleDomain(q, v) ==
    CASE v = "carrierFlow"       -> 0..q.capacityUpper
      [] v = "carrierLoss"       -> 0..(MaxDistance * MaxRate * MaxFlow)
      [] v = "built_capacity"    -> 0..MaxBuilt
      [] v = "installTechnology" -> 0..1
      [] v = "capex"             -> 0..(CapexDen * MaxCost * (MaxBuilt * (MaxDistance + 1) + MaxDistance))

RuleValue(x, v) == IF v = "capex" THEN x[v] ELSE CapexDen * x[v]

RECURSIVE SumTerms(_, _)
SumTerms(terms, x) ==
    IF terms = {} THEN 0
    ELSE LET t == CHOOSE u \in terms : TRUE
         IN  t.coef * x[t.var] + SumTerms(terms \ {t}, x)

\* A constraint with a coefficient that is not finite is satisfied by no
\* assignment of finite values.
RuleHolds(c, x) ==
    IF c.kind = "zero"
      THEN x[c.var] = 0
      ELSE /\ \A t \in c.terms : t.coef >= 0
           /\ c.den * RuleValue(x, c.var) = CapexDen * SumTerms(c.terms, x)

NoRuleSolution == [v \in RuleVariables |-> 0]
NoRule == [kind |-> "none"]

InitRule ==
    /\ idleLoop /\ idleBalance /\ idleTransport /\ idleResults /\ idleInput /\ idleFill
    /\ \E q \in RuleParams :
          ru = [pc |-> "construct", q |-> q, losses |-> NoRule,
                capexRule |-> NoRule, status |-> None, sol |-> NoRuleSolution]

\* zen_garden, construct_constraints (181-201) at the index
constructConstraintsZenGarden ==
    /\ ru.pc = "construct"
    /\ ru.q.module = "zen_garden"
    /\ ru' = [ru EXCEPT
         !.losses = constraintTransportTechnologyLossesFlowRule(ru.q),
         !.capexRule = constraintCapexTransportTechnologyRule(ru.q),
         !.pc = "solve"]
    /\ UNCHANGED <<varsLoop, mb, tr, pp, ti, fp>>

\* model, constructConstraints (126-146) at the index
constructConstraintsModel ==
    /\ ru.pc = "construct"
    /\ ru.q.module = "model"
    /\ ru' = [ru EXCEPT
         !.losses = constraintTransportTechnologyLossesFlowRuleModel(ru.q),
         !.capexRule = constraintTransportTechnologyLinearCapexRule(ru.q),
         !.pc = "solve"]
    /\ UNCHANGED <<varsLoop, mb, tr, pp, ti, fp>>

RuleAssignments(q) ==
    {[carrierFlow |-> f, carrierLoss |-> l, built_capacity |-> b,
      installTechnology |-> i, capex |-> c] :
        f \in RuleDomain(q, "carrierFlow"), l \in RuleDomain(q, "carrierLoss"),
        b \in RuleDomain(q, "built_capacity"),
        i \in RuleDomain(q, "installTechnology"), c \in RuleDomain(q, "capex")}

RuleSolutions ==
    {x \in RuleAssignments(ru.q) :
        RuleHolds(ru.losses, x) /\ RuleHolds(ru.capexRule, x)}

\* The solver: a feasible assignment, or INFEASIBLE when there is none.
solveRule ==
    /\ ru.pc = "solve"
    /\ IF RuleSolutions # {}
         THEN \E x \in RuleSolutions :
                 ru' = [ru EXCEPT !.sol = x, !.status = "OPTIMAL", !.pc = "done"]
         ELSE ru' = [ru EXCEPT !.status = "INFEASIBLE", !.pc = "done"]
    /\ UNCHANGED <<varsLoop, mb, tr, pp, ti, fp>>

NextRule == constructConstraintsZenGarden \/ constructConstraintsModel \/ solveRule

SpecRule == InitRule /\ [][NextRule]_vars

\* ---- claims on the rules of the transport technology

\* C11: on an edge of infinite distance every solution of the zen_garden
\* rules has built capacity zero, carrier flow zero and carrier loss zero.
C11_InfiniteDistanceForcesZero ==
    (ru.q.module = "zen_garden" /\ ru.status = "OPTIMAL" /\ isinf(ru.q.distance)) =>
        /\ ru.sol["built_capacity"] = 0
        /\ ru.sol["carrierFlow"] = 0
        /\ ru.sol["carrierLoss"] = 0

\* C12: on an edge of finite distance every solution has
\* capex = built capacity * specific cost + install indicator * distance *
\* per-distance cost (capex in units of 1 / CapexDen).
C12_CapexEquality ==
    (ru.status = "OPTIMAL" /\ ~isinf(ru.q.distance)) =>
        ru.sol["capex"] =
            CapexDen * (ru.sol["built_capacity"] * ru.q.capexSpecificTransport
                        + ru.sol["installTechnology"] * ru.q.distance
                            * ru.q.capexPerDistance)

MaxCapacity == 3        \* largest minCapacityProduction / maxCapacityProduction

SizeParams ==
    [minCapacityProduction : 0..MaxCapacity,
     maxCapacityProduction : 0..MaxCapacity,
     availabilityProductionTechnologies : 0..1]

\* constraintProductionTechnologiesSizeRule returns the tuple
\* (lower, body, upper): lower <= body <= upper.  A bound is coef * variable.
SizeRuleUpperUnscaled(q) ==
    [lower |-> [coef |-> q.minCapacityProduction,
                var |-> "installProductionTechnologies"],
     body  |-> "sizeProductionTechnologies",
     upper |-> [coef |-> q.maxCapacityProduction, var |-> "one"]]

constraintProductionTechnologiesSizeRule(q) ==
    [lower |-> [coef |-> q.minCapacityProduction,
                var |-> "installProductionTechnologies"],
     body  |-> "sizeProductionTechnologies",
     upper |-> [coef |-> q.maxCapacityProduction,
                var |-> "installProductionTechnologies"]]

\* constraintAvailabilityProductionTechnologiesRule:
\* availability <= installProductionTechnologies
constraintAvailabilityProductionTechnologiesRule(q) ==
    [lower |-> q.availabilityProductionTechnologies,
     body  |-> "installProductionTechnologies"]

\* The size is a real variable, the install indicator is binary; "one" is
\* the constant 1.
SizeAssignments ==
    {[sizeProductionTechnologies |-> z, installProductionTechnologies |-> i,
      one |-> 1] : z \in (-1)..MaxCapacity, i \in 0..1}

SizeHolds(c, x) ==
    /\ c.lower.coef * x[c.lower.var] <= x[c.body]
    /\ x[c.body] <= c.upper.coef * x[c.upper.var]
AvailabilityHolds(c, x) == c.lower <= x[c.body]

NoSizeSolution ==
    [sizeProductionTechnologies |-> 0, installProductionTechnologies |-> 0,
     one |-> 1]

InitSize ==
    /\ idleLoop /\ idleBalance /\ idleTransport /\ idleResults /\ idleInput /\ idleFill
    /\ \E q \in SizeParams :
          ru = [pc |-> "construct", q |-> q, size |-> NoRule,
                availability |-> NoRule, status |-> None,
                sol |-> NoSizeSolution]

\* The constraints of the technology at the index.
constructSize ==
    /\ ru.pc = "construct"
    /\ ru' = [ru EXCEPT
         !.size = constraintProductionTechnologiesSizeRule(ru.q),
         !.availability = constraintAvailabilityProductionTechnologiesRule(ru.q),
         !.pc = "solve"]
    /\ UNCHANGED <<varsLoop, mb, tr, pp, ti, fp>>

SizeSolutions ==
    {x \in SizeAssignments :
        SizeHolds(ru.size, x) /\ AvailabilityHolds(ru.availability, x)}

solveSize ==
    /\ ru.pc = "solve"
    /\ IF SizeSolutions # {}
         THEN \E x \in SizeSolutions :
                 ru' = [ru EXCEPT !.sol = x, !.status = "OPTIMAL", !.pc = "done"]
         ELSE ru' = [ru EXCEPT !.status = "INFEASIBLE", !.pc = "done"]
    /\ UNCHANGED <<varsLoop, mb, tr, pp, ti, fp>>

NextSize == constructSize \/ solveSize

SpecSize == InitSize /\ [][NextSize]_vars

\* C14: in every solution minCapacity * install <= size <= maxCapacity *
\* install; the size is not negative, and it is zero when the install
\* indicator is zero.
C14_SizeWithinBounds ==
    ru.status = "OPTIMAL" =>
        LET size    == ru.sol["sizeProductionTechnologies"]
            install == ru.sol["installProductionTechnologies"]
        IN  /\ ru.q.minCapacityProduction * install <= size
            /\ size <= ru.q.maxCapacityProduction * install
            /\ size >= 0
            /\ install = 0 => size = 0

\* A technology that could be sized but is not installed.
C14_Witness ==
    /\ ru.status = "OPTIMAL"
    /\ ru.q.maxCapacityProduction > 0
    /\ ru.q.minCapacityProduction > 0
    /\ ru.sol["installProductionTechnologies"] = 0
    /\ ru.sol["sizeProductionTechnologies"] = 0

\* ---- a further claim on the mass balance (SpecBalance)

\* C15: once the mass balance is constructed there is exactly one equation
\* for every (carrier, node, time); its import term is there exactly when
\* the carrier is an input carrier, its export term and its demand exactly
\* when the carrier is an output carrier, and the conversion and transport
\* terms are those of every other carrier's equation at the node: a carrier
\* that is neither input nor output carrier has the equation of the
\* conversion and transport terms alone.
C15_EquationForEveryCarrier ==
    "balance" \in mb.constructed =>
      \A carrier \in Carriers, node \in Nodes, time \in TimeSteps :
        LET own == {b \in mb.balance :
                       b.carrier = carrier /\ b.node = node /\ b.time = time}
        IN  /\ Cardinality(own) = 1
            /\ \A b \in own :
                 /\ b.carrierImport =
                      IF carrier \in mb.cfg.setInputCarriers
                        THEN {importCarrier(carrier, node, time)} ELSE {}
                 /\ b.carrierExport =
                      IF carrier \in mb.cfg.setOutputCarriers
                        THEN {exportCarrier(carrier, node, time)} ELSE {}
                 /\ b.carrierDemand =
                      IF carrier \in mb.cfg.setOutputCarriers
                        THEN mb.cfg.demandCarrier[carrier][node] ELSE 0
                 /\ b.carrierConversionIn # {}
                 /\ b.carrierConversionOut # {}
                 /\ Cardinality(b.carrierFlowIn) =
                      Cardinality(mb.cfg.setTransportTechnologies) * Cardinality(Nodes)
                 /\ Cardinality(b.carrierFlowOut) =
                      Cardinality(mb.cfg.setTransportTechnologies) * Cardinality(Nodes)

\* A constructed balance with a carrier that is neither input nor output
\* carrier, where there is demand for the output carrier.
C15_Witness ==
    /\ "balance" \in mb.constructed
    /\ "B" \notin mb.cfg.setInputCarriers
    /\ "B" \notin mb.cfg.setOutputCarriers
    /\ mb.cfg.demandCarrier["A"]["node1"] > 0
    /\ \E b \in mb.balance :
          /\ b.carrier = "B" /\ b.node = "node1"
          /\ b.carrierImport = {} /\ b.carrierExport = {} /\ b.carrierDemand = 0
          /\ b.carrierFlowIn # {}

\* C27: in the constructed mass balance, for every technology, carrier, time
\* step and edge (n, m), the transport inflow term of node m for the flow
\* from n and the transport outflow term of node n for the flow to m are one
\* and the same flow variable; in particular the flow of a node to itself
\* is in both terms of that node's equation and cancels.
C27_TransportTermsCancel ==
    "balance" \in mb.constructed =>
      \A bn \in mb.balance, bm \in mb.balance :
        (bn.carrier = bm.carrier /\ bn.time = bm.time) =>
          {v \in bm.carrierFlowIn : v.node = bn.node} =
            {v \in bn.carrierFlowOut : v.nodeTo = bm.node}

(***************************************************************************)
(* SpecResults: the save and load methods of Postprocess (results.py) on   *)
(* one results directory.  The model holds two variables, carrierFlow with *)
(* tuple indices and capexTotal with a scalar index, and two parameters,   *)
(* distance (a dict) and lossFlow (a scalar).                              *)
(***************************************************************************)
MaxValue == 1           \* largest value of a variable or parameter
NoValue  == -1          \* var[index].value is None

VarNames == {"carrierFlow", "capexTotal"}
VarIndices(name) ==
    IF name = "carrierFlow"
      THEN {<<"pipe", "edge", 0>>, <<"pipe", "edge", 1>>}
      ELSE {0}
parameterList == {"distance", "lossFlow"}

\* The solved model: a value, or no value, at every index of every variable.
VarTables ==
    {[name \in VarNames |->
         IF name = "carrierFlow"
           THEN [i \in VarIndices("carrierFlow") |->
                    IF i[3] = 0 THEN a ELSE b]
           ELSE [i \in VarIndices("capexTotal") |-> c]] :
       a \in {NoValue} \cup 0..MaxValue, b \in {NoValue} \cup 0..MaxValue,
       c \in {NoValue} \cup 0..MaxValue}

\* getattr(self.params, param): a dict for distance, a number for lossFlow.
ParamTables ==
    {[distance |-> [k \in {<<"pipe", "edge">>} |-> d], lossFlow |-> l] :
        d \in 0..MaxValue, l \in 0..MaxValue}

doc(name) == <<"doc", name>>

\* index if isinstance(index, tuple) else (index, )
\* (carrierFlow and distance have tuple indices)
AsTuple(name, index) ==
    IF name \in {"carrierFlow", "distance"} THEN index ELSE <<index>>

\* f"{k}": the text of a tuple, a string and no longer a tuple
Str(k) == [str |-> k]

\* pd.DataFrame(data=values): a missing value becomes NaN
FrameValue(v) == IF v = NoValue THEN NaN ELSE v

\* saveVar lines 157-168: {var.name: {"dataframe": {f"{k}": {"value": v}},
\* "docstring": var.doc}}
VarDataFramesSkipFalsy(vs) ==
    [name \in VarNames |->
        [dataframe |->
            [k \in {Str(AsTuple(name, i)) :
                      i \in {j \in VarIndices(name) : vs[name][j] > 0}} |->
                [value |-> FrameValue(vs[name][
                    CHOOSE i \in VarIndices(name) : Str(AsTuple(name, i)) = k])]],
         docstring |-> doc(name)]]

VarDataFrames(vs) ==
    [name \in VarNames |->
        [dataframe |->
            [k \in {Str(AsTuple(name, i)) : i \in VarIndices(name)} |->
                [value |-> FrameValue(vs[name][
                    CHOOSE i \in VarIndices(name) : Str(AsTuple(name, i)) = k])]],
         docstring |-> doc(name)]]

\* saveParam lines 101-118
ParamDataFrames(prm) ==
    [name \in parameterList |->
        [dataframe |->
            IF name = "distance"
              THEN [k \in {Str(AsTuple(name, i)) : i \in DOMAIN prm.distance} |->
                      [value |-> prm.distance[
                          CHOOSE i \in DOMAIN prm.distance : Str(AsTuple(name, i)) = k]]]
              ELSE [k \in {Str(<<0>>)} |-> [value |-> prm.lossFlow]],
         docstring |-> doc(name)]]

EmptyDict == [k \in {} |-> 0]

InitResults ==
    /\ idleLoop /\ idleBalance /\ idleTransport /\ idleRules /\ idleInput /\ idleFill
    /\ \E vs \in VarTables, ps \in ParamTables :
          pp = [pc |-> "ready", vars |-> vs, params |-> ps,
                dir |-> {},
                varDictJson |-> EmptyDict, paramDictJson |-> EmptyDict,
                varDictPickle |-> EmptyDict, paramDictPickle |-> EmptyDict,
                varDict |-> EmptyDict, paramDict |-> EmptyDict,
                loads |-> {}, err |-> None]

\* Postprocess.saveParam (lines 90-131)
saveParam ==
    /\ pp.pc = "ready"
    /\ pp' = [pp EXCEPT
         !.dir = @ \cup {"paramDict.json", "dictAllSequenceTimeSteps.json",
                         "dictAllSequenceTimeSteps.pickle"},
         !.paramDictJson = ParamDataFrames(pp.params)]
    /\ UNCHANGED <<varsLoop, mb, tr, ru, ti, fp>>

\* Postprocess.saveVar (lines 152-171)
saveVar ==
    /\ pp.pc = "ready"
    /\ pp' = [pp EXCEPT
         !.dir = @ \cup {"varDict.json"},
         !.varDictJson = VarDataFrames(pp.vars)]
    /\ UNCHANGED <<varsLoop, mb, tr, ru, ti, fp>>

\* Postprocess.saveResults (lines 258-271): pickles the class-level
\* paramDict and varDict.
saveResults ==
    /\ pp.pc = "ready"
    /\ pp' = [pp EXCEPT
         !.dir = @ \cup {"paramDict.pickle", "varDict.pickle"},
         !.paramDictPickle = pp.paramDict,
         !.varDictPickle = pp.varDict]
    /\ UNCHANGED <<varsLoop, mb, tr, ru, ti, fp>>

\* Postprocess.loadParam (lines 133-137): open() of a missing file raises.
loadParam ==
    /\ pp.pc = "ready"
    /\ IF "paramDict.pickle" \in pp.dir
         THEN pp' = [pp EXCEPT !.paramDict = pp.paramDictPickle,
                               !.loads = @ \cup {"loadParam"}]
         ELSE pp' = [pp EXCEPT !.err = "FileNotFoundError", !.pc = "failed",
                               !.loads = @ \cup {"loadParam"}]
    /\ UNCHANGED <<varsLoop, mb, tr, ru, ti, fp>>

\* Postprocess.loadVar (lines 174-178)
loadVar ==
    /\ pp.pc = "ready"
    /\ IF "varDict.pickle" \in pp.dir
         THEN pp' = [pp EXCEPT !.varDict = pp.varDictPickle,
                               !.loads = @ \cup {"loadVar"}]
         ELSE pp' = [pp EXCEPT !.err = "FileNotFoundError", !.pc = "failed",
                               !.loads = @ \cup {"loadVar"}]
    /\ UNCHANGED <<varsLoop, mb, tr, ru, ti, fp>>

NextResults == saveParam \/ saveVar \/ saveResults \/ loadParam \/ loadVar

SpecResults == InitResults /\ [][NextResults]_vars

\* The index -> value mapping of a table, tuple indices as tuples.
ValuesOf(vs, name) == [i \in {AsTuple(name, j) : j \in VarIndices(name)} |->
                            vs[name][CHOOSE j \in VarIndices(name) : AsTuple(name, j) = i]]

\* C17: a load that follows the save of the same table succeeds and yields
\* the saved index -> value mapping, tuple indices as tuples.
C17_RoundTrip ==
    /\ ("varDict.json" \in pp.dir /\ "loadVar" \in pp.loads) =>
          /\ pp.err = None
          /\ DOMAIN pp.varDict = VarNames
          /\ \A name \in VarNames : pp.varDict[name] = ValuesOf(pp.vars, name)
    /\ ("paramDict.json" \in pp.dir /\ "loadParam" \in pp.loads) =>
          /\ pp.err = None
          /\ DOMAIN pp.paramDict = parameterList

AnnuityDen == 2     \* fractional annuity and year fraction: multiples of 1 / AnnuityDen

\* Floating-point product and sum on the non-negative numbers, np.inf and
\* np.nan.
Mul(a, b) ==
    IF a = NaN \/ b = NaN THEN NaN
    ELSE IF a = Infinity \/ b = Infinity
           THEN (IF a = 0 \/ b = 0 THEN NaN ELSE Infinity)
           ELSE a * b
Plus(a, b) ==
    IF a = NaN \/ b = NaN THEN NaN
    ELSE IF a = Infinity \/ b = Infinity THEN Infinity ELSE a + b

InputTechnology == "pipe"
CapexAttributes == {"capexPerDistance", "capexSpecific"}

\* The input data of the technology and the system settings.  With
\* DoubleCapexTransport both capex attributes are specified; the value of an
\* attribute that is not there is of no account.
InputConfigs ==
    {c \in [DoubleCapexTransport : BOOLEAN,
            attributes : SUBSET CapexAttributes,
            capexPerDistance : 0..MaxCost,
            capexSpecific : 0..MaxCost,
            fixedOpexSpecific : 0..MaxCost,
            distance : [Range(setEdges) -> {Infinity} \cup 0..MaxDistance],
            fractionalAnnuity : 1..AnnuityDen,
            bidirectional : BOOLEAN,
            existingCapacity : ExistingTables] :
        /\ c.DoubleCapexTransport => c.attributes = CapexAttributes
        /\ \A a \in CapexAttributes : a \notin c.attributes => c[a] = 0}

\* A series over setEdges x set_time_steps_yearly
Series(v) == [e \in Range(setEdges) |-> [y \in set_time_steps_yearly |-> v]]
TimesSeries(ser, byEdge) ==
    [e \in Range(setEdges) |->
        [y \in set_time_steps_yearly |-> Mul(ser[e][y], byEdge[e])]]
TimesScalar(ser, x) ==
    [e \in Range(setEdges) |-> [y \in set_time_steps_yearly |-> Mul(ser[e][y], x)]]

\* datainput.exists_attribute
ExistsAttributeAlways(cfg, name) == TRUE
exists_attribute(cfg, name) == name \in cfg.attributes

NoError == [type |-> None]

InitInput ==
    /\ idleLoop /\ idleBalance /\ idleTransport /\ idleRules /\ idleResults
    /\ idleFill
    /\ \E cfg \in InputConfigs :
          ti = [pc |-> "getCapexTransport", cfg |-> cfg,
                capexSpecific |-> None, capexPerDistance |-> None,
                fixedOpexSpecific |-> Series(cfg.fixedOpexSpecific),
                annualized |-> FALSE, capexExistingCapacity |-> None,
                list_of_elements |-> <<>>, err |-> NoError,
                constraintCapexTransportTechnology |-> {}]

\* getCapexTransport (lines 57-74)
getCapexTransport ==
    /\ ti.pc = "getCapexTransport"
    /\ IF ti.cfg.DoubleCapexTransport
         THEN ti' = [ti EXCEPT
                !.capexSpecific = Series(ti.cfg.capexSpecific),
                !.capexPerDistance = Series(ti.cfg.capexPerDistance),
                !.pc = "convertToAnnualizedCapex"]
         ELSE IF exists_attribute(ti.cfg, "capexPerDistance")
           THEN LET perDistance == Series(ti.cfg.capexPerDistance)
                    specific == TimesSeries(perDistance, ti.cfg.distance)
                IN  ti' = [ti EXCEPT
                      !.capexSpecific = specific,
                      !.fixedOpexSpecific = TimesSeries(@, ti.cfg.distance),
                      !.capexPerDistance = TimesScalar(specific, 0),
                      !.pc = "convertToAnnualizedCapex"]
           ELSE IF exists_attribute(ti.cfg, "capexSpecific")
             THEN LET specific == Series(ti.cfg.capexSpecific)
                  IN  ti' = [ti EXCEPT
                        !.capexSpecific = specific,
                        !.capexPerDistance = TimesScalar(specific, 0),
                        !.pc = "convertToAnnualizedCapex"]
             ELSE ti' = [ti EXCEPT
                        !.err = [type |-> "AttributeError",
                                 technology |-> InputTechnology,
                                 attributes |-> CapexAttributes],
                        !.pc = "failed"]
    /\ UNCHANGED <<varsLoop, mb, tr, ru, pp, fp>>

\* convertToAnnualizedCapex (lines 76-83); the annualized values are counted
\* in units of 1 / AnnuityDen, the year fraction is 1.
convertToAnnualizedCapex ==
    /\ ti.pc = "convertToAnnualizedCapex"
    /\ ti' = [ti EXCEPT
         !.capexSpecific =
            [e \in Range(setEdges) |-> [y \in set_time_steps_yearly |->
                Plus(Mul(ti.capexSpecific[e][y], ti.cfg.fractionalAnnuity),
                     Mul(ti.fixedOpexSpecific[e][y], AnnuityDen))]],
         !.capexPerDistance = TimesScalar(@, ti.cfg.fractionalAnnuity),
         !.annualized = TRUE,
         !.pc = "add_element"]
    /\ UNCHANGED <<varsLoop, mb, tr, ru, pp, fp>>

\* calculateCapexOfSingleCapacity (lines 85-91)
calculateCapexOfSingleCapacity(capexSpecific, capacity, edge) ==
    IF capexSpecific[edge][FirstYear] = NaN
      THEN 0 ELSE Mul(capexSpecific[edge][FirstYear], capacity)

\* The rest of store_input_data (lines 52-55) and add_element (line 38).
add_element ==
    /\ ti.pc = "add_element"
    /\ LET capexExisting ==
             [e \in Range(setEdges) |->
                 calculateCapexOfSingleCapacity(
                     ti.capexSpecific, ti.cfg.existingCapacity[e], e)]
       IN  IF ti.cfg.bidirectional
                /\ ~checkIfBidirectionalPasses(ti.cfg.existingCapacity)
             THEN ti' = [ti EXCEPT
                    !.capexExistingCapacity = capexExisting,
                    !.err = [type |-> "AssertionError",
                             technology |-> InputTechnology],
                    !.pc = "failed"]
             ELSE ti' = [ti EXCEPT
                    !.capexExistingCapacity = capexExisting,
                    !.list_of_elements = Append(@, InputTechnology),
                    !.pc = "construct_constraints"]
    /\ UNCHANGED <<varsLoop, mb, tr, ru, pp, fp>>

\* construct_params (lines 121-145) and the capex constraint of
\* construct_constraints (lines 193-200)
constructCapexTransportTechnology ==
    /\ ti.pc = "construct_constraints"
    /\ ti' = [ti EXCEPT
         !.constraintCapexTransportTechnology =
            {[tech |-> tech, edge |-> edge, time |-> time,
              rule |-> constraintCapexTransportTechnologyRule(
                  [distance |-> ti.cfg.distance[edge],
                   capexSpecificTransport |-> ti.capexSpecific[edge][time],
                   capexPerDistance |-> ti.capexPerDistance[edge][time]])] :
               tech \in Range(ti.list_of_elements), edge \in Range(setEdges),
               time \in set_time_steps_yearly},
         !.pc = "done"]
    /\ UNCHANGED <<varsLoop, mb, tr, ru, pp, fp>>

NextInput ==
    \/ getCapexTransport
    \/ convertToAnnualizedCapex
    \/ add_element
    \/ constructCapexTransportTechnology

SpecInput == InitInput /\ [][NextInput]_vars

\* C21: with DoubleCapexTransport disabled and neither capex attribute,
\* getCapexTransport fails with an error that names the technology and the
\* two attributes; nothing has been annualized and the technology is not
\* in the list of elements.  With one of the attributes it does not fail.
C21_MissingCapexAttributeFails ==
    ti.pc # "getCapexTransport" =>
      IF ~ti.cfg.DoubleCapexTransport /\ ti.cfg.attributes = {}
        THEN /\ ti.pc = "failed"
             /\ ti.err = [type |-> "AttributeError",
                          technology |-> InputTechnology,
                          attributes |-> {"capexPerDistance", "capexSpecific"}]
             /\ ~ti.annualized
             /\ ti.capexSpecific = None /\ ti.capexPerDistance = None
             /\ ti.list_of_elements = <<>>
        ELSE ti.err.type # "AttributeError"

C21_Witness ==
    /\ ti.pc = "failed"
    /\ ti.err.type = "AttributeError"
    /\ ti.cfg.attributes = {}
    /\ ~ti.cfg.DoubleCapexTransport

\* C22: with DoubleCapexTransport disabled, after getCapexTransport the
\* per-distance capex is zero for every edge and yearly step, whether or
\* not the capexPerDistance attribute was supplied.
C22_PerDistanceCapexZero ==
    (/\ ~ti.cfg.DoubleCapexTransport
     /\ ti.pc # "getCapexTransport"
     /\ ti.err.type # "AttributeError") =>
        \A e \in Range(setEdges), y \in set_time_steps_yearly :
            ti.capexPerDistance[e][y] = 0


(***************************************************************************)
(* SpecFill: FillPyoDict (preprocess/functions/fill_pyomo_dictionary.py),  *)
(* the methods that fill the pyomo dictionary from the input data:         *)
(* attributes, conversionBalanceParameters, technologyTranspParameters and *)
(* dataPWAApproximation, each called once on the dictionary.               *)
(***************************************************************************)
FillNodes     == {"node1", "node2"}
FillTimeSteps == {0}
FillTransportTechnologies  == {"pipe_A", "truck"}
FillConversionTechnologies == <<"conv", "boiler">>
ApproximationTypes == <<"Capex", "ConverEfficiency">>
PWAParameters == {"slope", "intercept"}
SupportPoints == {0}

\* carrierName in technologyName: the substring test on the names above.
NameContains(technologyName, carrierName) ==
    <<technologyName, carrierName>> \in {<<"pipe_A", "A">>}

\* A table of the input data: data[subset][technology][name].
DataTable(tech, kind, type) == [tech |-> tech, kind |-> kind, type |-> type]
NoTable == DataTable(None, None, None)

\* The approximation of a technology for a type: listed as linear, listed
\* as nonlinear, or neither.
Approximations == {"linear", "nonlinear", "PWA"}

FillConfigs ==
    [setInputCarriers  : {{"A"}},
     setOutputCarriers : {{"B"}},
     setTransportTechnologies : SUBSET FillTransportTechnologies,
     transportDistance : {"Euclidean", "Actual"},
     \* rows and columns of the converEfficiency table of the technologies
     efficiencyRows    : {{"A"}, {"X"}},
     efficiencyColumns : {{"B"}, {"X"}},
     approximation : [Range(FillConversionTechnologies) ->
                         [Range(ApproximationTypes) -> Approximations]]]

\* add_parameter(pyoDict, df, dfIndexNames, dfIndex, dfColumn, key, name,
\* technologyName): the cell of df is stored under the name, the technology
\* and the key.
Entry(name, type, tech, key, df) ==
    [name |-> name, type |-> type, tech |-> tech, key |-> key, df |-> df]

InitFill ==
    /\ idleLoop /\ idleBalance /\ idleTransport /\ idleRules /\ idleResults
    /\ idleInput
    /\ \E cfg \in FillConfigs :
          fp = [cfg |-> cfg, called |-> {}, pyoDict |-> {}, sets |-> {},
                printed |-> {}, err |-> None]

CanCall(method) == fp.err = None /\ method \notin fp.called

\* attributes: setTransportCarriers (lines 186-192)
TransportCarriers(cfg, technologyName) ==
    {carrierName \in cfg.setOutputCarriers \cup cfg.setInputCarriers :
        NameContains(technologyName, carrierName)}

attributes ==
    /\ CanCall("attributes")
    /\ fp' = [fp EXCEPT
         !.called = @ \cup {"attributes"},
         !.sets = @ \cup
            {[name |-> "setTransportCarriers", tech |-> technologyName,
              members |-> TransportCarriers(fp.cfg, technologyName)] :
                technologyName \in fp.cfg.setTransportTechnologies}]
    /\ UNCHANGED <<varsLoop, mb, tr, ru, pp, ti>>

\* conversionBalanceParameters (lines 209-242)
conversionBalanceParameters ==
    /\ CanCall("conversionBalanceParameters")
    /\ LET setInputCarriers  == fp.cfg.efficiencyRows
           setOutputCarriers == fp.cfg.efficiencyColumns
       IN  fp' = [fp EXCEPT
             !.called = @ \cup {"conversionBalanceParameters"},
             !.sets = @ \cup
                UNION {{[name |-> "setInputCarriers", tech |-> technologyName,
                         members |-> setInputCarriers],
                        [name |-> "setOutputCarriers", tech |-> technologyName,
                         members |-> setOutputCarriers]} :
                       technologyName \in Range(FillConversionTechnologies)},
             !.pyoDict = @ \cup
                {Entry("converEfficiency", None, technologyName,
                       <<carrierIn, carrierOut>>,
                       DataTable(technologyName, "table", "converEfficiency")) :
                    technologyName \in Range(FillConversionTechnologies),
                    carrierIn \in setInputCarriers,
                    carrierOut \in setOutputCarriers}]
    /\ UNCHANGED <<varsLoop, mb, tr, ru, pp, ti>>

\* technologyTranspParameters (lines 64-118): the parameters per time step,
\* then the distance; the name `distance` is bound on the 'Euclidean'
\* branch only (lines 96-99) and read in the body of the loop (line 106).
TranspParameters(cfg) ==
    {Entry(parameterName, None, technologyName, <<nodeName, nodeNameAlias, timeName>>,
           DataTable(technologyName, "table", parameterName)) :
        parameterName \in {"availability", "costPerDistance", "efficiencyPerDistance"},
        technologyName \in cfg.setTransportTechnologies,
        nodeName \in FillNodes, nodeNameAlias \in FillNodes,
        timeName \in FillTimeSteps}
DistanceParameters(cfg) ==
    {Entry("distance", None, technologyName, <<nodeName, nodeNameAlias>>,
           DataTable(technologyName, "table", "distanceEuclidean")) :
        technologyName \in cfg.setTransportTechnologies,
        nodeName \in FillNodes, nodeNameAlias \in FillNodes}

DistanceBound(cfg) == cfg.transportDistance = "Euclidean"

technologyTranspParameters ==
    /\ CanCall("technologyTranspParameters")
    /\ LET message ==
             IF fp.cfg.transportDistance = "Actual"
               THEN {"Actual distances have not been implemented, use Euclidean distance for now"}
               ELSE {}
       IN  IF DistanceBound(fp.cfg) \/ fp.cfg.setTransportTechnologies = {}
             THEN fp' = [fp EXCEPT
                    !.called = @ \cup {"technologyTranspParameters"},
                    !.printed = @ \cup message,
                    !.pyoDict = @ \cup TranspParameters(fp.cfg)
                                  \cup DistanceParameters(fp.cfg)]
             ELSE fp' = [fp EXCEPT
                    !.called = @ \cup {"technologyTranspParameters"},
                    !.printed = @ \cup message,
                    !.pyoDict = @ \cup TranspParameters(fp.cfg),
                    !.err = "UnboundLocalError"]
    /\ UNCHANGED <<varsLoop, mb, tr, ru, pp, ti>>

\* dataPWAApproximation (lines 244-272): the loop over the technologies and
\* the types, in order; df is a local name of the method, assigned on the
\* linear and on the PWA branch.
PWAPairs ==
    [i \in 1..(Len(FillConversionTechnologies) * Len(ApproximationTypes)) |->
        <<FillConversionTechnologies[((i - 1) \div Len(ApproximationTypes)) + 1],
          ApproximationTypes[((i - 1) % Len(ApproximationTypes)) + 1]>>]

SelectTable(cfg, previous, technologyName, type) ==
    IF cfg.approximation[technologyName][type] = "linear"
      THEN DataTable(technologyName, "linear", type)
      ELSE IF cfg.approximation[technologyName][type] = "nonlinear"
        THEN previous
        ELSE DataTable(technologyName, "PWA", type)

RECURSIVE PWALoop(_, _)
PWALoop(cfg, n) ==
    IF n = 0 THEN [df |-> NoTable, err |-> None, entries |-> {}]
    ELSE LET st == PWALoop(cfg, n - 1)
             technologyName == PWAPairs[n][1]
             type == PWAPairs[n][2]
             df == SelectTable(cfg, st.df, technologyName, type)
         IN  IF st.err # None THEN st
             ELSE IF df = NoTable
               THEN [st EXCEPT !.err = "UnboundLocalError"]
               ELSE [df |-> df, err |-> None,
                     entries |-> st.entries \cup
                        {Entry(parameterName, type, technologyName,
                               <<supportPointPWA>>, df) :
                            parameterName \in PWAParameters,
                            supportPointPWA \in SupportPoints}]

dataPWAApproximation ==
    /\ CanCall("dataPWAApproximation")
    /\ LET st == PWALoop(fp.cfg, Len(PWAPairs))
       IN  fp' = [fp EXCEPT
             !.called = @ \cup {"dataPWAApproximation"},
             !.pyoDict = @ \cup st.entries,
             !.err = st.err]
    /\ UNCHANGED <<varsLoop, mb, tr, ru, pp, ti>>

NextFill ==
    \/ attributes
    \/ conversionBalanceParameters
    \/ technologyTranspParameters
    \/ dataPWAApproximation

SpecFill == InitFill /\ [][NextFill]_vars

ConfiguredCarriers == fp.cfg.setInputCarriers \cup fp.cfg.setOutputCarriers

\* C24: no carrier set in the dictionary names a carrier outside the
\* configured carriers, and no transport technology is left with an empty
\* set of transported carriers: such a configuration is rejected with an
\* error.
C24_UnknownCarrierRejected ==
    fp.err = None =>
        \A st \in fp.sets :
            /\ st.members \subseteq ConfiguredCarriers
            /\ st.name = "setTransportCarriers" => st.members # {}

\* C28: with transportDistance 'Actual', technologyTranspParameters prints
\* its message, does not fail, and fills the distance for every (transport
\* technology, node, alias node) as with 'Euclidean'.
C28_ActualFallsBackToEuclidean ==
    ("technologyTranspParameters" \in fp.called
       /\ fp.cfg.transportDistance = "Actual") =>
        /\ fp.printed # {}
        /\ fp.err = None
        /\ DistanceParameters(fp.cfg) \subseteq fp.pyoDict

\* C29: once dataPWAApproximation has been called, every parameter it
\* stored under a technology and a type was read from that technology's own
\* table of that type: the linear table when the technology is listed as
\* linear, the PWA table when it is listed neither as linear nor as
\* nonlinear; nothing is stored for a technology listed as nonlinear.
C29_OwnTableOnly ==
    \A en \in fp.pyoDict :
        en.name \in PWAParameters =>
            /\ fp.cfg.approximation[en.tech][en.type] # "nonlinear"
            /\ en.df = DataTable(en.tech, fp.cfg.approximation[en.tech][en.type],
                                 en.type)


(***************************************************************************)
(* SpecCollect: the dictionaries of the class Postprocess (results.py      *)
(* lines 29-34) and the methods that collect into them, getVarValues and   *)
(* getParamValues, called on the instances made for successive models.     *)
(* varDict and paramDict are attributes of the class: self.varDict of      *)
(* every instance is the one dictionary of the class.                      *)
(***************************************************************************)
MaxInstances == 2       \* instances of Postprocess made in one process

CollectIndices == {0, 1}
CollectParams  == <<"distance", "lossFlow">>

\* The active variables of a model in the order of their declaration.
CollectOrders ==
    {<<"carrierFlow", "capexTotal">>, <<"capexTotal">>,
     <<"gdp_binary", "capexTotal">>}

\* 'constraint' not in var.name and 'gdp' not in var.name
IsCollected(name) == name \notin {"gdp_binary"}

\* A model: its variables and the value of its variables and parameters.
CollectModels == [vars : CollectOrders, value : 0..MaxValue]

\* The first component the loop of the method reaches createDataframe
\* with: createDataframe(var, self.varDict, self.varDf) looks the component
\* up in a dictionary whose keys are names, which raises (lines 150, 225).
FirstCollected(order) ==
    LET eligible == {i \in DOMAIN order : IsCollected(order[i])}
    IN  order[CHOOSE i \in eligible : \A j \in eligible : i <= j]

CollectedEntry(name, index, value, instance) ==
    [name |-> name, index |-> index, value |-> value, instance |-> instance]

\* getVarValues (lines 139-150) on the dictionary: self.varDict[var.name] =
\* dict(), then the values that are truthy.
VarValues(dict, m, instance) ==
    LET name == FirstCollected(m.vars)
    IN  {e \in dict : e.name # name} \cup
        {CollectedEntry(name, index, m.value, instance) :
            index \in {i \in CollectIndices : m.value # 0}}

\* getParamValues (lines 79-88)
ParamValues(dict, m, instance) ==
    {e \in dict : e.name # CollectParams[1]} \cup
    {CollectedEntry(CollectParams[1], index, m.value, instance) :
        index \in CollectIndices}

InitCollect ==
    /\ idleLoop /\ idleBalance /\ idleTransport /\ idleRules /\ idleInput
    /\ idleFill
    /\ \E ms \in [1..MaxInstances -> CollectModels] :
          pp = [models |-> ms, instance |-> 0, varDict |-> {},
                paramDict |-> {}, called |-> {}, raised |-> {}]

\* An instance for the next model; __init__ assigns neither varDict nor
\* paramDict (lines 37-58).
newPostprocess ==
    /\ pp.instance < MaxInstances
    /\ pp' = [pp EXCEPT !.instance = @ + 1]
    /\ UNCHANGED <<varsLoop, mb, tr, ru, ti, fp>>

getVarValues ==
    /\ pp.instance >= 1
    /\ <<pp.instance, "getVarValues">> \notin pp.called
    /\ pp' = [pp EXCEPT
         !.varDict = VarValues(@, pp.models[pp.instance], pp.instance),
         !.called = @ \cup {<<pp.instance, "getVarValues">>},
         !.raised = @ \cup {<<pp.instance, "getVarValues">>}]
    /\ UNCHANGED <<varsLoop, mb, tr, ru, ti, fp>>

getParamValues ==
    /\ pp.instance >= 1
    /\ <<pp.instance, "getParamValues">> \notin pp.called
    /\ pp' = [pp EXCEPT
         !.paramDict = ParamValues(@, pp.models[pp.instance], pp.instance),
         !.called = @ \cup {<<pp.instance, "getParamValues">>},
         !.raised = @ \cup {<<pp.instance, "getParamValues">>}]
    /\ UNCHANGED <<varsLoop, mb, tr, ru, ti, fp>>

NextCollect == newPostprocess \/ getVarValues \/ getParamValues

SpecCollect == InitCollect /\ [][NextCollect]_vars

=============================================================================
